---------------------------- MODULE Spec2Model ----------------------------
(***************************************************************************)
(* Model of the TaskManagerAPI task core: the JSON-file Database           *)
(* (src/src/database/connection.py), the TaskRepository                     *)
(* (src/src/repositories/task_repository.py), the pydantic models          *)
(* (src/src/models/task.py), the TaskService                               *)
(* (src/src/services/task_service.py) and the status codes of the routes   *)
(* (src/src/api/routes.py).                                                *)
(*                                                                         *)
(* Spec is the service under any client; StoreSpec is the Database on its  *)
(* own, with a disk that can fail; PairSpec is two server processes over   *)
(* one backing file.                                                       *)
(* Requests are serialized: every handler is one atomic action.            *)
(* datetime.now() is modelled by the variable now; a reading never goes    *)
(* backwards, and two successive readings may be equal (clock resolution)  *)
(* or differ.  A datetime is a natural number of microsecond ticks.        *)
(* A str is a sequence of one-character strings, so that lower() and       *)
(* strip() are computed.  Python's None is NoneStr for str/enum typed      *)
(* values, NoneTitle for a title, NoDate for a datetime and NoIso for a    *)
(* serialized datetime.                                                    *)
(***************************************************************************)
EXTENDS Integers, Sequences, FiniteSets, TLC

VARIABLES
    data,     \* Database.data["tasks"]: the records, in dict insertion order
    file,     \* the backing JSON file: [exists, corrupt, tasks]
    disk,     \* TRUE while the backing file can be written
    now,      \* the latest reading of datetime.now()
    nextId,   \* ids 1..nextId-1 have been drawn from uuid.uuid4()
    deleted,  \* ids for which delete_task has returned True
    created,  \* the task the latest call returned if it was a create_task
              \* that went through, NoTask after any other call
    peer      \* a second server process over the same file: [data, acked],
              \* its Database.data["tasks"], and the ids either process has
              \* created and answered for and neither has deleted

vars == <<data, file, disk, now, nextId, deleted, created, peer>>

-----------------------------------------------------------------------------
(* Bounds of the model *)

\* ids that uuid.uuid4() hands out during a run
MaxTasks == 2
\* the clock runs over 0..MaxTime
MaxTime == 1
\* ticks per second: isoformat() drops the fraction when it is zero
TicksPerSec == 2

-----------------------------------------------------------------------------
(* Python values *)

NoneStr == "None"
NoneTitle == <<"None">>
NoDate == -1
NoIso == <<>>

Min(a, b) == IF a < b THEN a ELSE b

\* the readings datetime.now() can return right after a reading of t
Reads(t) == t..Min(t + 1, MaxTime)

\* str.lower() on one character
lowerChar(c) == CASE c = "A" -> "a" [] c = "B" -> "b" [] OTHER -> c

\* str.lower()
lower(s) == [i \in 1..Len(s) |-> lowerChar(s[i])]

RECURSIVE lstrip(_)
lstrip(s) == IF s # <<>> /\ Head(s) = " " THEN lstrip(Tail(s)) ELSE s

RECURSIVE rstrip(_)
rstrip(s) ==
    IF s # <<>> /\ s[Len(s)] = " " THEN rstrip(SubSeq(s, 1, Len(s) - 1)) ELSE s

\* str.strip()
strip(s) == rstrip(lstrip(s))

\* datetime.isoformat(): seconds, then the fraction unless it is zero
isoformat(t) ==
    IF t % TicksPerSec = 0
    THEN <<t \div TicksPerSec>>
    ELSE <<t \div TicksPerSec, t % TicksPerSec>>

\* pydantic's parse of an ISO-8601 string into a datetime
fromisoformat(s) ==
    IF Len(s) = 1 THEN s[1] * TicksPerSec ELSE s[1] * TicksPerSec + s[2]

TaskStatus == {"pending", "in_progress", "completed", "cancelled"}

TaskPriority == {"low", "medium", "high", "urgent"}


-----------------------------------------------------------------------------
(* src/src/models/task.py *)

\* the five fields of TaskBase, which a TaskUpdate may set
PatchFields == {"title", "description", "priority", "status", "due_date"}

\* the title validator returning v instead of v.strip()
title_unstripped(v) ==
    IF Len(v) < 1 \/ strip(v) = <<>>
    THEN [ok |-> FALSE, v |-> v]
    ELSE [ok |-> TRUE, v |-> v]

\* TaskBase.title_must_not_be_empty, after Field(min_length=1)
title_must_not_be_empty(v) ==
    IF Len(v) < 1 \/ strip(v) = <<>>
    THEN [ok |-> FALSE, v |-> v]
    ELSE [ok |-> TRUE, v |-> strip(v)]

\* a due_date validator that accepts every value: TaskBase without
\* due_date_must_be_future
due_date_unchecked(v, t) == TRUE

\* TaskBase.due_date_must_be_future, run at clock reading t
due_date_must_be_future(v, t) == ~(v # NoDate /\ v < t)

\* TaskCreate(**raw) at clock reading t: the validated object, or a pydantic
\* ValidationError
TaskCreate(raw, t) ==
    LET ti == title_must_not_be_empty(raw.title)
    IN  IF /\ ti.ok
           /\ raw.priority \in TaskPriority
           /\ raw.status \in TaskStatus
           /\ due_date_must_be_future(raw.due_date, t)
        THEN [ok |-> TRUE, v |-> [raw EXCEPT !.title = ti.v]]
        ELSE [ok |-> FALSE, v |-> raw]

\* TaskUpdate.title_must_not_be_empty, after Field(None, min_length=1)
update_title_must_not_be_empty(v) ==
    IF v = NoneTitle
    THEN [ok |-> TRUE, v |-> v]
    ELSE title_must_not_be_empty(v)

\* TaskUpdate(**raw), then model_dump(exclude_unset=True): the fields the caller
\* set, explicit None included.  TaskUpdate has no due_date validator.
TaskUpdate(raw) ==
    LET ti == IF "title" \in DOMAIN raw
              THEN update_title_must_not_be_empty(raw.title)
              ELSE [ok |-> TRUE, v |-> NoneTitle]
    IN  IF /\ DOMAIN raw \subseteq PatchFields
           /\ ti.ok
           /\ "priority" \in DOMAIN raw => raw.priority \in TaskPriority \cup {NoneStr}
           /\ "status" \in DOMAIN raw => raw.status \in TaskStatus \cup {NoneStr}
        THEN [ok |-> TRUE,
              v |-> [f \in DOMAIN raw |-> IF f = "title" THEN ti.v ELSE raw[f]]]
        ELSE [ok |-> FALSE, v |-> raw]

\* pydantic's coercion of a stored record's ISO strings when it is passed to
\* Task(**data)
from_record(rec) ==
    [rec EXCEPT !.due_date = IF rec.due_date = NoIso THEN NoDate
                             ELSE fromisoformat(rec.due_date),
                !.created_at = fromisoformat(rec.created_at),
                !.updated_at = fromisoformat(rec.updated_at)]

\* Task(**x) at clock reading t.  Task inherits both TaskBase validators, so
\* due_date is checked against the clock whenever a Task is built, a Task read
\* back from the store included.
Task(x, t) ==
    LET ti == title_must_not_be_empty(x.title)
    IN  IF /\ ti.ok
           /\ x.priority \in TaskPriority
           /\ x.status \in TaskStatus
           /\ due_date_must_be_future(x.due_date, t)
        THEN [ok |-> TRUE, v |-> [x EXCEPT !.title = ti.v]]
        ELSE [ok |-> FALSE, v |-> x]

\* the value a failed or void call returns
NoTask == [id |-> 0]

-----------------------------------------------------------------------------
(* src/src/database/connection.py, on the "tasks" collection *)

\* the keys of the collection
Keys(db) == {db[i].id : i \in 1..Len(db)}

\* the position of key id in the dict's insertion order
IndexOf(db, id) == CHOOSE i \in 1..Len(db) : db[i].id = id

\* Database.get_by_id
get_by_id(db, id) == db[IndexOf(db, id)]

\* Database.insert, before _save_data: a new key goes last, a present key keeps
\* its place
db_insert(db, id, item) ==
    IF id \in Keys(db)
    THEN [db EXCEPT ![IndexOf(db, id)] = item]
    ELSE Append(db, item)

\* Database.update, before _save_data
db_update(db, id, item) ==
    IF id \in Keys(db)
    THEN [ok |-> TRUE, db |-> [db EXCEPT ![IndexOf(db, id)] = item]]
    ELSE [ok |-> FALSE, db |-> db]

\* Database.delete, before _save_data
db_delete(db, id) ==
    IF id \in Keys(db)
    THEN [ok |-> TRUE,
          db |-> SubSeq(db, 1, IndexOf(db, id) - 1)
                 \o SubSeq(db, IndexOf(db, id) + 1, Len(db))]
    ELSE [ok |-> FALSE, db |-> db]

\* whether the value v of field k of a record is Python's None
is_none(k, v) ==
    CASE k = "title" -> v = NoneTitle
      [] k = "due_date" -> v = NoIso
      [] k \in {"description", "priority", "status"} -> v = NoneStr
      [] OTHER -> FALSE

\* json.dump of one record: None is written as null, a str (a str-based enum
\* member included) as a JSON string
json_dump_record(rec) ==
    [k \in DOMAIN rec |->
       IF is_none(k, rec[k]) THEN [null |-> TRUE] ELSE [string |-> rec[k]]]

\* json.load of one record: null is read as None, a JSON string as a str
json_load_record(doc) ==
    [k \in DOMAIN doc |->
       IF "string" \in DOMAIN doc[k] THEN doc[k].string
       ELSE IF k = "title" THEN NoneTitle
       ELSE IF k = "due_date" THEN NoIso
       ELSE NoneStr]

\* json.dump(self.data, ...) and json.load(f), on the "tasks" collection
json_dump(db) == [i \in 1..Len(db) |-> json_dump_record(db[i])]

json_load(doc) == [i \in 1..Len(doc) |-> json_load_record(doc[i])]

\* a _save_data that keeps the records of the file whose keys the snapshot
\* does not have, and writes them behind those of the snapshot
save_data_merging(db, w, f) ==
    IF w
    THEN [exists |-> TRUE, corrupt |-> FALSE,
          tasks |-> json_dump(db)
                      \o SelectSeq(f.tasks, LAMBDA x : x.id.string \notin Keys(db))]
    ELSE f

\* Database._save_data: the file a call leaves behind when the snapshot is db
\* and the disk is writable (w) or not
save_data(db, w, f) == IF w THEN [exists |-> TRUE, corrupt |-> FALSE, tasks |-> json_dump(db)] ELSE f

\* open(self.db_file, "r") and json.load(f): the document, or the exception
\* raised when the bytes of the file cannot be read or are not JSON
read_json(f) ==
    IF f.corrupt
    THEN [err |-> "JSONDecodeError", doc |-> <<>>]
    ELSE [err |-> "ok", doc |-> f.tasks]

\* _load_data without its try/except: the exception of the read leaves it
load_data_unguarded(f) ==
    IF ~f.exists THEN [err |-> "ok", db |-> <<>>]
    ELSE IF read_json(f).err # "ok" THEN [err |-> read_json(f).err, db |-> <<>>]
    ELSE [err |-> "ok", db |-> json_load(read_json(f).doc)]

\* Database._load_data, called by Database() over file f, self.data being
\* {"tasks": {}}: [err, db], the exception that leaves it, if any, and the
\* snapshot the Database starts with
load_data(f) ==
    IF ~f.exists THEN [err |-> "ok", db |-> <<>>]
    ELSE IF read_json(f).err # "ok" THEN [err |-> "ok", db |-> <<>>]
    ELSE [err |-> "ok", db |-> json_load(read_json(f).doc)]

\* Database.get_all("tasks")
get_all(db) == db

\* A Database call on snapshot db, file f and disk state w returns
\* [err, db, file, ret]: "ok" or the exception raised, the snapshot and the
\* file it leaves, and the value returned.

\* Database.insert
store_insert(db, w, f, id, item) ==
    [err |-> IF w THEN "ok" ELSE "OSError",
     db |-> db_insert(db, id, item),
     file |-> save_data(db_insert(db, id, item), w, f),
     ret |-> FALSE]

\* an update that calls _save_data whether or not the key is present
store_update_saving(db, w, f, id, item) ==
    LET u == db_update(db, id, item)
    IN  [err |-> IF ~w THEN "OSError" ELSE "ok",
         db |-> u.db,
         file |-> save_data(u.db, w, f),
         ret |-> u.ok /\ w]

\* Database.update
store_update(db, w, f, id, item) ==
    LET u == db_update(db, id, item)
    IN  [err |-> IF u.ok /\ ~w THEN "OSError" ELSE "ok",
         db |-> u.db,
         file |-> IF u.ok THEN save_data(u.db, w, f) ELSE f,
         ret |-> u.ok /\ w]

\* Database.delete
store_delete(db, w, f, id) ==
    LET u == db_delete(db, id)
    IN  [err |-> IF u.ok /\ ~w THEN "OSError" ELSE "ok",
         db |-> u.db,
         file |-> IF u.ok THEN save_data(u.db, w, f) ELSE f,
         ret |-> u.ok /\ w]

\* Database.clear_collection
clear_collection(db, w, f) ==
    [err |-> IF w THEN "ok" ELSE "OSError",
     db |-> <<>>,
     file |-> save_data(<<>>, w, f),
     ret |-> FALSE]

-----------------------------------------------------------------------------
(* src/src/repositories/task_repository.py *)

\* TaskRepository.find_all at clock reading t: every record goes through
\* Task(**data), and one record that fails fails the call
find_all(db, t) ==
    IF \A i \in 1..Len(db) : Task(from_record(db[i]), t).ok
    THEN [err |-> "ok",
          tasks |-> [i \in 1..Len(db) |-> Task(from_record(db[i]), t).v]]
    ELSE [err |-> "ValidationError", tasks |-> <<>>]

\* find_by_id over a Database.get_by_id that indexes the dict instead of
\* calling .get(): an absent id raises KeyError
find_by_id_keyerror(db, id, t) ==
    IF id \notin Keys(db)
    THEN [err |-> "KeyError", found |-> FALSE, task |-> NoTask]
    ELSE [err |-> "ok", found |-> TRUE, task |-> Task(from_record(get_by_id(db, id)), t).v]

\* TaskRepository.find_by_id: found is FALSE for the None result
find_by_id(db, id, t) ==
    IF id \notin Keys(db)
    THEN [err |-> "ok", found |-> FALSE, task |-> NoTask]
    ELSE IF Task(from_record(get_by_id(db, id)), t).ok
         THEN [err |-> "ok", found |-> TRUE,
               task |-> Task(from_record(get_by_id(db, id)), t).v]
         ELSE [err |-> "ValidationError", found |-> FALSE, task |-> NoTask]

\* the test of TaskRepository.find_by_status
status_is(task, status) == task.status = status

\* TaskRepository.find_by_status
find_by_status(db, status, t) ==
    LET all == find_all(db, t)
    IN  IF all.err # "ok"
        THEN all
        ELSE [err |-> "ok",
              tasks |-> SelectSeq(all.tasks, LAMBDA x : status_is(x, status))]

\* find_by_title comparing the titles as they are: task.title == title
title_matches_exact(task, title) == task.title = title

\* the test of TaskRepository.find_by_title: task.title.lower() == title.lower()
title_matches(task, title) == lower(task.title) = lower(title)

\* TaskRepository.find_by_title: the first match in find_all's order; None has
\* no lower(), which the first comparison finds out
find_by_title(db, title, t) ==
    LET all == find_all(db, t)
        hits == {i \in 1..Len(all.tasks) : title_matches(all.tasks[i], title)}
    IN  IF all.err # "ok"
        THEN [err |-> all.err, found |-> FALSE, task |-> NoTask]
        ELSE IF title = NoneTitle /\ all.tasks # <<>>
        THEN [err |-> "AttributeError", found |-> FALSE, task |-> NoTask]
        ELSE IF title = NoneTitle \/ hits = {}
        THEN [err |-> "ok", found |-> FALSE, task |-> NoTask]
        ELSE [err |-> "ok", found |-> TRUE,
              task |-> all.tasks[CHOOSE i \in hits : \A j \in hits : i <= j]]

\* task.model_dump() with the datetimes put through isoformat()
task_dict(task) ==
    [id |-> task.id, title |-> task.title, description |-> task.description,
     priority |-> task.priority, status |-> task.status,
     due_date |-> IF task.due_date # NoDate THEN isoformat(task.due_date) ELSE NoIso,
     created_at |-> isoformat(task.created_at),
     updated_at |-> isoformat(task.updated_at)]

\* TaskRepository.save, before _save_data
save(db, task) == db_insert(db, task.id, task_dict(task))

\* TaskRepository.update without the line task.updated_at = datetime.now()
update_unstamped(db, task, t) ==
    [task |-> task, wrote |-> db_update(db, task.id, task_dict(task)).ok,
     db |-> db_update(db, task.id, task_dict(task)).db]

\* TaskRepository.update at clock reading t, before _save_data: the result of
\* Database.update is dropped
update(db, task, t) ==
    LET stamped == [task EXCEPT !.updated_at = t]
    IN  [task |-> stamped, wrote |-> db_update(db, task.id, task_dict(stamped)).ok,
         db |-> db_update(db, task.id, task_dict(stamped)).db]

\* TaskRepository.delete, before _save_data
delete(db, id) == db_delete(db, id)

\* TaskRepository.exists at clock reading t
exists(db, id, t) ==
    LET r == find_by_id(db, id, t)
    IN  [err |-> r.err, ret |-> r.found]

\* TaskRepository.count
count(db) == Len(get_all(db))

\* a read whose list.sort() reorders the stored mapping along with the list
\* of tasks it returns
after_read_sorted(db, tasks) ==
    IF Len(tasks) = Len(db)
    THEN [i \in 1..Len(tasks) |-> task_dict(tasks[i])]
    ELSE db

\* self.data["tasks"] when a read that built the list tasks has returned or
\* raised: find_all, find_by_id and count go through the mapping that
\* Database.get_all and get_by_id hand out and assign to none of its keys,
\* Task(**data) copies the fields, and the service sorts the list of the
\* copies
after_read(db, tasks) == db

-----------------------------------------------------------------------------
(* src/src/services/task_service.py *)
(* A service call on snapshot db, file f and disk state w returns           *)
(* [err, db, file, ret, now]: "ok" or the exception raised, the snapshot    *)
(* and the file it leaves, the value returned and the last clock reading.   *)

Raise(e, db, f, t) == [err |-> e, db |-> db, file |-> f, ret |-> NoTask, now |-> t]

\* list.sort(key=created_at, reverse=True): stable, so x goes behind every
\* element that is not older
insert_sorted(sorted, x) ==
    LET k == Cardinality({i \in 1..Len(sorted) : sorted[i].created_at >= x.created_at})
    IN  SubSeq(sorted, 1, k) \o <<x>> \o SubSeq(sorted, k + 1, Len(sorted))

RECURSIVE sort_created_desc(_)
sort_created_desc(tasks) ==
    IF tasks = <<>>
    THEN <<>>
    ELSE insert_sorted(sort_created_desc(SubSeq(tasks, 1, Len(tasks) - 1)),
                       tasks[Len(tasks)])

\* TaskService.get_all_tasks at clock reading t
get_all_tasks(db, t) ==
    LET all == find_all(db, t)
    IN  IF all.err # "ok"
        THEN all
        ELSE [err |-> "ok", tasks |-> sort_created_desc(all.tasks)]

\* TaskService.get_task_by_id at clock reading t
get_task_by_id(db, id, t) ==
    LET r == find_by_id(db, id, t)
    IN  IF r.err # "ok" THEN [err |-> r.err, ret |-> NoTask]
        ELSE IF ~r.found THEN [err |-> "NotFound", ret |-> NoTask]
        ELSE [err |-> "ok", ret |-> r.task]

\* TaskService.get_tasks_by_status at clock reading t
get_tasks_by_status(db, status, t) ==
    LET r == find_by_status(db, status, t)
    IN  IF r.err # "ok"
        THEN r
        ELSE [err |-> "ok", tasks |-> sort_created_desc(r.tasks)]

\* Task(...) in create_task with the two datetime.now() readings swapped:
\* created_at takes the later one
new_task_swapped(id, d, tc, tu, tv) ==
    Task([id |-> id, title |-> d.title, description |-> d.description,
          priority |-> d.priority, status |-> d.status, due_date |-> d.due_date,
          created_at |-> tu, updated_at |-> tc], tv)

\* Task(id=..., **task_data.model_dump(), created_at=..., updated_at=...) in
\* create_task, validated at clock reading tv
new_task(id, d, tc, tu, tv) ==
    Task([id |-> id, title |-> d.title, description |-> d.description,
          priority |-> d.priority, status |-> d.status, due_date |-> d.due_date,
          created_at |-> tc, updated_at |-> tu], tv)

\* TaskService.create_task(d) with uuid4() = id; the clock reads t at the
\* checks, tc and tu at the two timestamps, tv when Task() is validated
create_task(db, w, f, d, id, t, tc, tu, tv) ==
    LET existing == find_by_title(db, d.title, t)
        task == new_task(id, d, tc, tu, tv)
    IN  IF existing.err # "ok" THEN Raise(existing.err, db, f, t)
        ELSE IF existing.found THEN Raise("Duplicate", db, f, t)
        ELSE IF d.due_date # NoDate /\ d.due_date < t THEN Raise("Validation", db, f, t)
        ELSE IF ~task.ok THEN Raise("ValidationError", db, f, tv)
        ELSE IF ~w THEN Raise("OSError", save(db, task.v), f, tv)
        ELSE [err |-> "ok", db |-> save(db, task.v),
              file |-> save_data(save(db, task.v), w, f),
              ret |-> task.v, now |-> tv]

\* update_task over model_dump() without exclude_unset: a field the caller
\* left out is written as None
apply_patch_all_fields(task, p) ==
    [k \in DOMAIN task |->
       IF k \in DOMAIN p THEN p[k]
       ELSE IF k = "title" THEN NoneTitle
       ELSE IF k = "due_date" THEN NoDate
       ELSE IF k \in PatchFields THEN NoneStr
       ELSE task[k]]

\* the loop of setattr(existing_task, key, value) in update_task
apply_patch(task, p) ==
    [k \in DOMAIN task |-> IF k \in DOMAIN p THEN p[k] ELSE task[k]]

\* TaskService.update_task(id, p), p being model_dump(exclude_unset=True); the
\* clock reads t at the checks and tu in TaskRepository.update
update_task(db, w, f, id, p, t, tu) ==
    LET existing == get_task_by_id(db, id, t)
        other == find_by_title(db, p.title, t)
        upd == update(db, apply_patch(existing.ret, p), tu)
    IN  IF existing.err # "ok" THEN Raise(existing.err, db, f, t)
        ELSE IF "title" \in DOMAIN p /\ other.err # "ok" THEN Raise(other.err, db, f, t)
        ELSE IF "title" \in DOMAIN p /\ other.found /\ other.task.id # id
        THEN Raise("Duplicate", db, f, t)
        ELSE IF /\ "due_date" \in DOMAIN p
                /\ p.due_date # NoDate
                /\ p.due_date < t
        THEN Raise("Validation", db, f, t)
        ELSE IF upd.wrote /\ ~w THEN Raise("OSError", upd.db, f, tu)
        ELSE [err |-> "ok", db |-> upd.db,
              file |-> IF upd.wrote THEN save_data(upd.db, w, f) ELSE f,
              ret |-> upd.task, now |-> tu]

\* TaskService.delete_task(id) at clock reading t; ret is the bool returned
delete_task(db, w, f, id, t) ==
    LET existing == get_task_by_id(db, id, t)
        del == delete(db, id)
    IN  IF existing.err # "ok" THEN Raise(existing.err, db, f, t)
        ELSE IF del.ok /\ ~w THEN Raise("OSError", del.db, f, t)
        ELSE [err |-> "ok", db |-> del.db,
              file |-> IF del.ok THEN save_data(del.db, w, f) ELSE f,
              ret |-> del.ok, now |-> t]

\* TaskService.complete_task(id)
complete_task(db, w, f, id, t, tu) ==
    update_task(db, w, f, id, [status |-> "completed"], t, tu)

\* the dict built by stats[k][key] = stats[k].get(key, 0) + 1 over the tasks:
\* a key for each value of field k that occurs, with the number of its tasks
count_by(tasks, k) ==
    [v \in {tasks[i][k] : i \in 1..Len(tasks)} |->
       Cardinality({i \in 1..Len(tasks) : tasks[i][k] = v})]

\* the test that counts a task as overdue, at clock reading t
is_overdue(task, t) ==
    task.due_date # NoDate /\ task.due_date < t /\ task.status # "completed"

\* what get_statistics returns when it raises
NoStats == [total |-> -1]

\* TaskService.get_statistics: find_all at clock reading t, then the reading
\* tn of datetime.now() that the overdue test uses
get_statistics(db, t, tn) ==
    LET all == find_all(db, t)
    IN  IF all.err # "ok"
        THEN [err |-> all.err, ret |-> NoStats]
        ELSE [err |-> "ok",
              ret |-> [total |-> Len(all.tasks),
                       by_status |-> count_by(all.tasks, "status"),
                       by_priority |-> count_by(all.tasks, "priority"),
                       overdue |-> Cardinality({i \in 1..Len(all.tasks) :
                                                  is_overdue(all.tasks[i], tn)})]]

-----------------------------------------------------------------------------
(* src/src/api/routes.py *)
(* A route returns the status code of the response.  An exception that no   *)
(* except clause of the handler names leaves the handler, and the server    *)
(* answers 500; a body that TaskCreate or TaskUpdate rejects is answered    *)
(* 422 before the handler runs.                                             *)

\* the response to an exception e raised in a handler whose except clauses
\* name the exceptions of notfound with 404 and those of badrequest with 400
http_error(e, notfound, badrequest) ==
    IF e \in notfound THEN 404
    ELSE IF e \in badrequest THEN 400
    ELSE 500

\* GET /tasks/
route_get_all_tasks(db, t) ==
    LET r == get_all_tasks(db, t)
    IN  IF r.err = "ok" THEN 200 ELSE http_error(r.err, {}, {})

\* GET /tasks/{task_id}
route_get_task(db, id, t) ==
    LET r == get_task_by_id(db, id, t)
    IN  IF r.err = "ok" THEN 200 ELSE http_error(r.err, {"NotFound"}, {})

\* GET /tasks/status/{task_status}
route_get_tasks_by_status(db, status, t) ==
    LET r == get_tasks_by_status(db, status, t)
    IN  IF status \notin TaskStatus THEN 422
        ELSE IF r.err = "ok" THEN 200
        ELSE http_error(r.err, {}, {})

\* POST /tasks/ with body raw, parsed at clock reading t0
route_create_task(db, w, f, raw, id, t0, t, tc, tu, tv) ==
    LET r == create_task(db, w, f, TaskCreate(raw, t0).v, id, t, tc, tu, tv)
    IN  IF ~TaskCreate(raw, t0).ok THEN 422
        ELSE IF r.err = "ok" THEN 201
        ELSE http_error(r.err, {}, {"Duplicate", "Validation"})

\* PUT /tasks/{task_id} with body raw
route_update_task(db, w, f, id, raw, t, tu) ==
    LET r == update_task(db, w, f, id, TaskUpdate(raw).v, t, tu)
    IN  IF ~TaskUpdate(raw).ok THEN 422
        ELSE IF r.err = "ok" THEN 200
        ELSE http_error(r.err, {"NotFound"}, {"Duplicate", "Validation"})

\* DELETE /tasks/{task_id}
route_delete_task(db, w, f, id, t) ==
    LET r == delete_task(db, w, f, id, t)
    IN  IF r.err = "ok" THEN 204 ELSE http_error(r.err, {"NotFound"}, {})

\* PATCH /tasks/{task_id}/complete
route_complete_task(db, w, f, id, t, tu) ==
    LET r == complete_task(db, w, f, id, t, tu)
    IN  IF r.err = "ok" THEN 200 ELSE http_error(r.err, {"NotFound"}, {})

\* GET /tasks/analytics/statistics
route_get_statistics(db, t, tn) ==
    LET r == get_statistics(db, t, tn)
    IN  IF r.err = "ok" THEN 200 ELSE http_error(r.err, {}, {})

-----------------------------------------------------------------------------
(* The requests.  Each action is one service call run to completion. *)

\* an id generator that returns the value it returned last time
uuid4_repeating == IF nextId > 1 THEN nextId - 1 ELSE nextId

\* an id generator that hands out the lowest id not stored now
uuid4_lowest_free ==
    CHOOSE i \in 1..(Len(data) + 1) :
      i \notin Keys(data) /\ \A j \in 1..(i - 1) : j \in Keys(data)

\* uuid.uuid4(): a value never drawn before
uuid4 == nextId

Titles == {<<"a">>, <<"A">>, <<"b">>}

\* titles as a client writes them
RawTitles == Titles \cup {<<" ", "a">>, <<" ">>, <<>>}

Ids == 1..MaxTasks

\* what the caller holds when a service method has returned or raised: the
\* new task, fresh from create_task, or nothing of the kind
Called(op, r) == IF op = "create" /\ r.err = "ok" THEN r.ret ELSE NoTask

Init ==
    /\ data = <<>>
    /\ file = [exists |-> FALSE, corrupt |-> FALSE, tasks |-> <<>>]
    /\ disk = TRUE
    /\ now = 0
    /\ nextId = 1
    /\ deleted = {}
    /\ created = NoTask
    /\ peer = [data |-> <<>>, acked |-> {}]

\* time passes between two requests
Tick ==
    /\ now < MaxTime
    /\ now' = now + 1
    /\ UNCHANGED <<data, file, disk, nextId, deleted, created, peer>>

\* create_task(TaskCreate(**raw)): the TaskCreate was validated at an earlier
\* reading t0, and the clock reads tc <= tu <= tv while the handler runs
CreateTask(Inputs) ==
    \E raw \in Inputs, tc \in Reads(now) :
      \E tu \in tc..Min(now + 1, MaxTime) :
        \E tv \in tu..Min(now + 1, MaxTime) :
          \E r \in {create_task(data, disk, file, TaskCreate(raw, 0).v, uuid4,
                                now, tc, tu, tv)} :
            /\ \E t0 \in 0..now : TaskCreate(raw, t0).ok
            /\ r.db # data => nextId <= MaxTasks
            /\ data' = r.db
            /\ file' = r.file
            /\ now' = r.now
            /\ nextId' = IF r.db # data THEN nextId + 1 ELSE nextId
            /\ created' = Called("create", r)
            /\ UNCHANGED <<disk, deleted, peer>>

\* update_task(id, TaskUpdate(**raw))
UpdateTask(Patches) ==
    \E id \in Ids, raw \in Patches, tu \in Reads(now) :
      \E r \in {update_task(data, disk, file, id, TaskUpdate(raw).v, now, tu)} :
        /\ TaskUpdate(raw).ok
        /\ data' = r.db
        /\ file' = r.file
        /\ now' = r.now
        /\ created' = Called("update", r)
        /\ UNCHANGED <<disk, nextId, deleted, peer>>

CompleteTask ==
    \E id \in Ids, tu \in Reads(now) :
      \E r \in {complete_task(data, disk, file, id, now, tu)} :
        /\ data' = r.db
        /\ file' = r.file
        /\ now' = r.now
        /\ created' = Called("complete", r)
        /\ UNCHANGED <<disk, nextId, deleted, peer>>

DeleteTask ==
    \E id \in Ids :
      \E r \in {delete_task(data, disk, file, id, now)} :
        /\ data' = r.db
        /\ file' = r.file
        /\ deleted' = IF r.err = "ok" /\ r.ret THEN deleted \cup {id} ELSE deleted
        /\ created' = Called("delete", r)
        /\ UNCHANGED <<disk, now, nextId, peer>>

GetTaskById ==
    \E id \in Ids :
      \E r \in {get_task_by_id(data, id, now)} :
        /\ data' = after_read(data, IF r.err = "ok" THEN <<r.ret>> ELSE <<>>)
        /\ created' = Called("get", r)
        /\ UNCHANGED <<file, disk, now, nextId, deleted, peer>>

GetAllTasks ==
    \E r \in {get_all_tasks(data, now)} :
      /\ data' = after_read(data, r.tasks)
      /\ created' = Called("list", r)
      /\ UNCHANGED <<file, disk, now, nextId, deleted, peer>>

GetTasksByStatus ==
    \E s \in TaskStatus :
      \E r \in {get_tasks_by_status(data, s, now)} :
        /\ data' = after_read(data, r.tasks)
        /\ created' = Called("by_status", r)
        /\ UNCHANGED <<file, disk, now, nextId, deleted, peer>>

GetStatistics ==
    \E tn \in Reads(now) :
      \E r \in {get_statistics(data, now, tn)} :
        /\ data' = after_read(data, find_all(data, now).tasks)
        /\ created' = Called("statistics", r)
        /\ now' = tn
        /\ UNCHANGED <<file, disk, nextId, deleted, peer>>

\* TaskRepository.find_by_title, called on the repository
FindByTitle ==
    \E title \in Titles :
      \E r \in {find_by_title(data, title, now)} :
        /\ data' = after_read(data, find_all(data, now).tasks)
        /\ created' = Called("find_by_title", r)
        /\ UNCHANGED <<file, disk, now, nextId, deleted, peer>>

\* TaskRepository.exists, called on the repository
Exists ==
    \E id \in Ids :
      \E r \in {exists(data, id, now)} :
        /\ data' = after_read(data, <<>>)
        /\ created' = Called("exists", r)
        /\ UNCHANGED <<file, disk, now, nextId, deleted, peer>>

\* TaskRepository.count, called on the repository
Count ==
    \E n \in {count(data)} :
      /\ data' = after_read(data, <<>>)
      /\ created' = Called("count", [err |-> "ok", ret |-> n])
      /\ UNCHANGED <<file, disk, now, nextId, deleted, peer>>

-----------------------------------------------------------------------------
(* The specification: any client, over a small set of request bodies *)

\* a bare body, and a full one that is due at the start of the run
CreateInputs ==
    {[title |-> x, description |-> NoneStr, priority |-> "medium",
      status |-> "pending", due_date |-> NoDate] : x \in RawTitles}
      \cup {[title |-> x, description |-> "d", priority |-> "high",
             status |-> "in_progress", due_date |-> 0] : x \in RawTitles}

\* the bodies of PUT /tasks/{id} that clients send
Patches == {[title |-> x] : x \in RawTitles \cup {NoneTitle}}

Next ==
    \/ Tick
    \/ CreateTask(CreateInputs)
    \/ UpdateTask(Patches)
    \/ CompleteTask
    \/ DeleteTask
    \/ GetTaskById
    \/ GetAllTasks
    \/ GetTasksByStatus
    \/ GetStatistics
    \/ FindByTitle
    \/ Exists
    \/ Count

Spec == Init /\ [][Next]_vars

-----------------------------------------------------------------------------
(* The Database on its own: any caller of insert, update, delete and       *)
(* clear_collection, a disk that fails and recovers, and a process that    *)
(* is started again over the file it left.                                 *)

\* the records a caller of the Database passes under key id
StoreItems(id) ==
    {task_dict([id |-> id, title |-> <<"a">>, description |-> NoneStr,
                priority |-> "medium", status |-> s, due_date |-> NoDate,
                created_at |-> 0, updated_at |-> 0]) : s \in {"pending", "completed"}}

StoreInsert ==
    \E id \in Ids :
      \E item \in StoreItems(id) :
        \E r \in {store_insert(data, disk, file, id, item)} :
          /\ data' = r.db
          /\ file' = r.file
          /\ UNCHANGED <<disk, now, nextId, deleted, created, peer>>

StoreUpdate ==
    \E id \in Ids :
      \E item \in StoreItems(id) :
        \E r \in {store_update(data, disk, file, id, item)} :
          /\ data' = r.db
          /\ file' = r.file
          /\ UNCHANGED <<disk, now, nextId, deleted, created, peer>>

StoreDelete ==
    \E id \in Ids :
      \E r \in {store_delete(data, disk, file, id)} :
        /\ data' = r.db
        /\ file' = r.file
        /\ UNCHANGED <<disk, now, nextId, deleted, created, peer>>

StoreClear ==
    \E r \in {clear_collection(data, disk, file)} :
      /\ data' = r.db
      /\ file' = r.file
      /\ UNCHANGED <<disk, now, nextId, deleted, created, peer>>

\* open(self.db_file, "w") starts to fail
DiskFails ==
    /\ disk
    /\ disk' = FALSE
    /\ UNCHANGED <<data, file, now, nextId, deleted, created, peer>>

\* ... and works again
DiskRecovers ==
    /\ ~disk
    /\ disk' = TRUE
    /\ UNCHANGED <<data, file, now, nextId, deleted, created, peer>>

\* the bytes of the file are damaged: it no longer parses as JSON
FileDamaged ==
    /\ file.exists
    /\ ~file.corrupt
    /\ file' = [file EXCEPT !.corrupt = TRUE]
    /\ UNCHANGED <<data, disk, now, nextId, deleted, created, peer>>

\* the process ends and Database() is constructed again over the file
Restart ==
    /\ data' = load_data(file).db
    /\ UNCHANGED <<file, disk, now, nextId, deleted, created, peer>>

StoreNext ==
    \/ StoreInsert
    \/ StoreUpdate
    \/ StoreDelete
    \/ StoreClear
    \/ DiskFails
    \/ DiskRecovers
    \/ FileDamaged
    \/ Restart

StoreSpec == Init /\ [][StoreNext]_vars

-----------------------------------------------------------------------------
(* Two server processes over one backing file.  Each has its own Database  *)
(* (get_database() is a singleton per process), loaded when the process    *)
(* started; requests are handled one at a time, by either process.         *)

Processes == {1, 2}

\* self.data["tasks"] of the Database of process i
instance(i) == IF i = 1 THEN data ELSE peer.data

\* the bodies of POST /tasks/ without a due_date
BareInputs == {x \in CreateInputs : x.due_date = NoDate}

\* process i handles create_task, within one reading of the clock
PairCreate ==
    \E i \in Processes, raw \in BareInputs :
      \E r \in {create_task(instance(i), disk, file, TaskCreate(raw, 0).v, uuid4,
                            now, now, now, now)} :
        /\ TaskCreate(raw, 0).ok
        /\ r.db # instance(i) => nextId <= MaxTasks
        /\ data' = IF i = 1 THEN r.db ELSE data
        /\ peer' = [data |-> IF i = 2 THEN r.db ELSE peer.data,
                    acked |-> IF r.err = "ok" THEN peer.acked \cup {r.ret.id}
                              ELSE peer.acked]
        /\ file' = r.file
        /\ nextId' = IF r.db # instance(i) THEN nextId + 1 ELSE nextId
        /\ created' = Called("create", r)
        /\ UNCHANGED <<disk, now, deleted>>

\* process i handles delete_task
PairDelete ==
    \E i \in Processes, id \in Ids :
      \E r \in {delete_task(instance(i), disk, file, id, now)} :
        /\ data' = IF i = 1 THEN r.db ELSE data
        /\ peer' = [data |-> IF i = 2 THEN r.db ELSE peer.data,
                    acked |-> IF r.err = "ok" /\ r.ret THEN peer.acked \ {id}
                              ELSE peer.acked]
        /\ file' = r.file
        /\ deleted' = IF r.err = "ok" /\ r.ret THEN deleted \cup {id} ELSE deleted
        /\ created' = Called("delete", r)
        /\ UNCHANGED <<disk, now, nextId>>

\* process i ends and is started again: Database() over the file as it is
PairStart ==
    \E i \in Processes :
      /\ data' = IF i = 1 THEN load_data(file).db ELSE data
      /\ peer' = [peer EXCEPT !.data = IF i = 2 THEN load_data(file).db ELSE @]
      /\ UNCHANGED <<file, disk, now, nextId, deleted, created>>

PairNext ==
    \/ Tick
    \/ PairCreate
    \/ PairDelete
    \/ PairStart

PairSpec == Init /\ [][PairNext]_vars

-----------------------------------------------------------------------------
(* What the properties below range over *)

DueDates == {NoDate} \cup (0..MaxTime)

\* request bodies of update_task: every field alone, with every value and with
\* None, pairs of fields, and the empty body
AllPatches ==
    Patches
      \cup {[description |-> x] : x \in {"d", "e", NoneStr}}
      \cup {[priority |-> x] : x \in TaskPriority \cup {NoneStr}}
      \cup {[status |-> x] : x \in TaskStatus \cup {NoneStr}}
      \cup {[due_date |-> x] : x \in DueDates}
      \cup {[title |-> x, due_date |-> y] : x \in Titles, y \in DueDates}
      \cup {[status |-> "cancelled", description |-> "e"], <<>>}

\* the validated bodies, as update_task receives them
ValidPatches == {TaskUpdate(raw).v : raw \in {x \in AllPatches : TaskUpdate(x).ok}}

\* the validated bodies of create_task
ValidCreates == {TaskCreate(raw, 0).v : raw \in {x \in CreateInputs : TaskCreate(x, 0).ok}}

\* ids a caller may name: those uuid4() can hand out, and two it never does
AnyId == 0..(MaxTasks + 1)

\* a failed call that left the store and the file as they were
Unchanged(r, e) == r = Raise(e, data, file, now)

\* some stored task has this title, compared case-insensitively
TitleTaken(title, ids) ==
    \E i \in 1..Len(data) : data[i].id \in ids /\ lower(data[i].title) = lower(title)

-----------------------------------------------------------------------------
\* C1: no two stored tasks have titles that are equal when compared
\* case-insensitively, whatever calls were made.
C1_TitlesUnique ==
    \A i, j \in 1..Len(data) :
      i # j => lower(data[i].title) # lower(data[j].title)

\* two tasks are stored, one of them completed, and the other can still take
\* a case variant of its own title
C1_Witness ==
    /\ Len(data) = 2
    /\ \E i, j \in 1..Len(data) :
         /\ data[i].status = "completed"
         /\ data[j].title = <<"a">>
         /\ update_task(data, disk, file, data[j].id, [title |-> <<"A">>], now, now).err = "ok"

\* C2: create_task with a title that some stored task has, up to case, raises
\* Duplicate and leaves the store as it was.
C2_DuplicateRejected ==
    \A d \in ValidCreates :
      TitleTaken(d.title, Keys(data)) =>
        \A tc \in Reads(now) :
          Unchanged(create_task(data, disk, file, d, uuid4, now, tc, tc, tc),
                    "Duplicate")

\* C3: update_task of a stored task with a title in the body raises Duplicate
\* exactly when another task has that title, up to case, and then leaves the
\* store as it was; a case variant of the task's own title is accepted.
C3_DuplicateOnUpdate ==
    \A id \in Keys(data), p \in ValidPatches :
      (DOMAIN p = {"title"} /\ p.title # NoneTitle) =>
        \A tu \in Reads(now) :
          LET r == update_task(data, disk, file, id, p, now, tu)
          IN  IF TitleTaken(p.title, Keys(data) \ {id})
              THEN Unchanged(r, "Duplicate")
              ELSE r.err = "ok"

\* C4: for an id that is not a key of the collection, get_task_by_id,
\* update_task with any body, delete_task and complete_task raise NotFound and
\* leave the store as it was.
C4_AbsentIdNotFound ==
    \A id \in AnyId \ Keys(data) :
      /\ get_task_by_id(data, id, now).err = "NotFound"
      /\ \A p \in ValidPatches, tu \in Reads(now) :
           Unchanged(update_task(data, disk, file, id, p, now, tu), "NotFound")
      /\ Unchanged(delete_task(data, disk, file, id, now), "NotFound")
      /\ \A tu \in Reads(now) :
           Unchanged(complete_task(data, disk, file, id, now, tu), "NotFound")

\* tasks are stored, one id was never drawn and another was deleted, and
\* calls on both are answered NotFound
C4_Witness ==
    /\ data # <<>>
    /\ \E id \in deleted, p \in ValidPatches :
         /\ DOMAIN p = {"status"}
         /\ Unchanged(update_task(data, disk, file, id, p, now, now), "NotFound")
         /\ Unchanged(delete_task(data, disk, file, 0, now), "NotFound")

\* C5: once delete_task(id) has returned True, id is never a key again, and
\* every call on it raises NotFound.
C5_DeletedStaysGone ==
    \A id \in deleted :
      /\ id \notin Keys(data)
      /\ get_task_by_id(data, id, now).err = "NotFound"
      /\ \A p \in ValidPatches, tu \in Reads(now) :
           update_task(data, disk, file, id, p, now, tu).err = "NotFound"
      /\ delete_task(data, disk, file, id, now).err = "NotFound"
      /\ \A tu \in Reads(now) :
           complete_task(data, disk, file, id, now, tu).err = "NotFound"

\* a task was deleted, a task with a later id is stored, and a read of the
\* deleted id is answered NotFound
C5_Witness ==
    \E id \in deleted :
      /\ \E i \in 1..Len(data) : data[i].id > id
      /\ get_task_by_id(data, id, now).err = "NotFound"

\* C6: the task that a successful create_task has just returned is read back
\* by get_task_by_id, at the next clock reading, equal in every field.
C6_ReadBack ==
    created # NoTask =>
      \A t \in Reads(now) :
        get_task_by_id(data, created.id, t) = [err |-> "ok", ret |-> created]

NewestFirst(tasks) ==
    \A i \in 1..(Len(tasks) - 1) : tasks[i].created_at >= tasks[i + 1].created_at

\* the ids of a list of tasks, each once
EachOnce(tasks, ids) ==
    /\ {tasks[i].id : i \in 1..Len(tasks)} = ids
    /\ Len(tasks) = Cardinality(ids)

\* C7: get_all_tasks returns every stored task exactly once, newest first.
C7_AllNewestFirst ==
    LET r == get_all_tasks(data, now)
    IN  /\ r.err = "ok"
        /\ EachOnce(r.tasks, Keys(data))
        /\ NewestFirst(r.tasks)

\* C8: get_tasks_by_status(s) returns exactly the stored tasks whose status is
\* s, newest first.
C8_ByStatus ==
    \A st \in TaskStatus :
      LET r == get_tasks_by_status(data, st, now)
      IN  /\ r.err = "ok"
          /\ EachOnce(r.tasks, {data[i].id : i \in {j \in 1..Len(data) : data[j].status = st}})
          /\ NewestFirst(r.tasks)

\* what a successful update of the task at place i may change: the fields in
\* the body and updated_at, nothing else, in no other record
Frame(old, new, i, fields) ==
    /\ Len(new) = Len(old)
    /\ \A j \in 1..Len(old) : j # i => new[j] = old[j]
    /\ new[i].id = old[i].id
    /\ new[i].created_at = old[i].created_at
    /\ \A k \in PatchFields \ fields : new[i][k] = old[i][k]

\* C9: a successful update_task changes, in the stored task, only the fields
\* present in the body and updated_at; update_task and complete_task never
\* change id or created_at; every other stored task is left as it was.
C9_UpdateFrame ==
    \A id \in Keys(data), tu \in Reads(now) :
      /\ \A p \in ValidPatches :
           LET r == update_task(data, disk, file, id, p, now, tu)
           IN  r.err = "ok" => Frame(data, r.db, IndexOf(data, id), DOMAIN p)
      /\ LET r == complete_task(data, disk, file, id, now, tu)
         IN  r.err = "ok" => Frame(data, r.db, IndexOf(data, id), {"status"})

\* an update of two fields goes through on a task that has every field set,
\* beside another stored task
C9_Witness ==
    /\ Len(data) = 2
    /\ \E i \in 1..Len(data), p \in ValidPatches :
         /\ DOMAIN p = {"title", "due_date"}
         /\ update_task(data, disk, file, data[i].id, p, now, now).err = "ok"
         /\ data[i].description = "d"
         /\ data[i].due_date # NoIso

\* the stored updated_at of task id in snapshot db
UpdatedAt(db, id) == fromisoformat(get_by_id(db, id).updated_at)

\* C10 as stated: a successful update_task or complete_task leaves updated_at
\* strictly greater than it was (looked at while the clock can still advance).
C10_StrictlyLater ==
    \A id \in Keys(data), tu \in Reads(now) :
      now < MaxTime =>
        /\ \A p \in ValidPatches :
             LET r == update_task(data, disk, file, id, p, now, tu)
             IN  r.err = "ok" => UpdatedAt(r.db, id) > UpdatedAt(data, id)
        /\ LET r == complete_task(data, disk, file, id, now, tu)
           IN  r.err = "ok" => UpdatedAt(r.db, id) > UpdatedAt(data, id)

\* C10 amended: a successful update_task or complete_task sets updated_at to
\* the clock reading taken in TaskRepository.update, which is never earlier
\* than the updated_at the task had.
C10_StampedNotEarlier ==
    \A id \in Keys(data), tu \in Reads(now) :
      /\ \A p \in ValidPatches :
           LET r == update_task(data, disk, file, id, p, now, tu)
           IN  r.err = "ok" =>
                 UpdatedAt(r.db, id) = tu /\ tu >= UpdatedAt(data, id)
      /\ LET r == complete_task(data, disk, file, id, now, tu)
         IN  r.err = "ok" =>
               UpdatedAt(r.db, id) = tu /\ tu >= UpdatedAt(data, id)

\* a task was completed at a later clock reading than it was created at
C10_Witness ==
    /\ \E i \in 1..Len(data) :
         /\ data[i].status = "completed"
         /\ fromisoformat(data[i].updated_at) > fromisoformat(data[i].created_at)
         /\ fromisoformat(data[i].updated_at) = now

\* the stored created_at of task id in snapshot db
CreatedAt(db, id) == fromisoformat(get_by_id(db, id).created_at)

\* C11: in every reachable state every stored task has created_at <= updated_at
\* (the clock not running backwards).
C11_CreatedBeforeUpdated ==
    \A id \in Keys(data) : CreatedAt(data, id) <= UpdatedAt(data, id)

\* two tasks are stored, one whose two timestamps are equal and a pending one
\* whose updated_at is later than its created_at
C11_Witness ==
    \E i, j \in Keys(data) :
      /\ CreatedAt(data, i) = UpdatedAt(data, i)
      /\ get_by_id(data, j).status = "pending"
      /\ CreatedAt(data, j) < UpdatedAt(data, j)

\* the sum of the values of a dict of counts
RECURSIVE SumOf(_)
SumOf(f) ==
    IF DOMAIN f = {}
    THEN 0
    ELSE LET k == CHOOSE x \in DOMAIN f : TRUE
         IN  f[k] + SumOf([x \in DOMAIN f \ {k} |-> f[x]])

\* the number of stored records whose field k is v
Stored(k, v) == Cardinality({i \in 1..Len(data) : data[i][k] = v})

\* C12: get_statistics returns total = the number of stored tasks, by_status
\* and by_priority with a key for exactly the values that occur and the number
\* of stored tasks under each, so that each dict sums to total.
C12_StatisticsCounts ==
    \A tn \in Reads(now) :
      LET r == get_statistics(data, now, tn)
      IN  /\ r.err = "ok"
          /\ r.ret.total = Len(data)
          /\ DOMAIN r.ret.by_status = {data[i].status : i \in 1..Len(data)}
          /\ \A s \in DOMAIN r.ret.by_status : r.ret.by_status[s] = Stored("status", s)
          /\ DOMAIN r.ret.by_priority = {data[i].priority : i \in 1..Len(data)}
          /\ \A q \in DOMAIN r.ret.by_priority :
               r.ret.by_priority[q] = Stored("priority", q)
          /\ SumOf(r.ret.by_status) = r.ret.total
          /\ SumOf(r.ret.by_priority) = r.ret.total

\* C13: get_statistics returns overdue = the number of stored tasks that have
\* a due_date earlier than the current time and a status other than completed.
C13_StatisticsOverdue ==
    \A tn \in Reads(now) :
      LET r == get_statistics(data, now, tn)
      IN  /\ r.err = "ok"
          /\ r.ret.overdue =
               Cardinality({i \in 1..Len(data) :
                              /\ data[i].due_date # NoIso
                              /\ fromisoformat(data[i].due_date) < tn
                              /\ data[i].status # "completed"})

\* validated bodies of create_task with a due_date at every clock reading
DueCreates ==
    {[title |-> x, description |-> NoneStr, priority |-> "medium",
      status |-> "pending", due_date |-> y] : x \in Titles, y \in 0..MaxTime}

\* C14: create_task with a title that is free and a due_date earlier than the
\* current time raises Validation and leaves the store as it was; with a
\* due_date at or after the current time it returns and the task is stored.
C14_DueDateAtCreate ==
    \A d \in DueCreates, tc \in Reads(now) :
      \A tu \in Reads(tc), tv \in Reads(tc) :
        (tu <= tv /\ tv <= now + 1 /\ ~TitleTaken(d.title, Keys(data))) =>
          LET r == create_task(data, disk, file, d, uuid4, now, tc, tu, tv)
          IN  IF d.due_date < now
              THEN Unchanged(r, "Validation")
              ELSE /\ r.err = "ok"
                   /\ Keys(r.db) = Keys(data) \cup {uuid4}
                   /\ get_by_id(r.db, uuid4).due_date = isoformat(d.due_date)

\* the stored due_date of task id in snapshot db is absent or not earlier
\* than clock reading t
DueNotBefore(db, id, t) ==
    get_by_id(db, id).due_date # NoIso =>
      fromisoformat(get_by_id(db, id).due_date) >= t

\* C15 as stated: a task that create_task, update_task or complete_task has
\* just written has no due_date earlier than the clock reading at the write,
\* the last one the call takes, whatever the body holds.
C15_DueNotPastAtWrite ==
    /\ \A d \in DueCreates \cup ValidCreates, tc \in Reads(now) :
         \A tu \in Reads(tc), tv \in Reads(tc) :
           (tu <= tv /\ tv <= now + 1) =>
             LET r == create_task(data, disk, file, d, uuid4, now, tc, tu, tv)
             IN  r.err = "ok" => DueNotBefore(r.db, uuid4, r.now)
    /\ \A id \in Keys(data), tu \in Reads(now) :
         /\ \A p \in ValidPatches :
              LET r == update_task(data, disk, file, id, p, now, tu)
              IN  r.err = "ok" => DueNotBefore(r.db, id, r.now)
         /\ LET r == complete_task(data, disk, file, id, now, tu)
            IN  r.err = "ok" => DueNotBefore(r.db, id, r.now)

\* C15 amended: the written task has no due_date earlier than the clock
\* reading at which the call made its checks, whatever the body holds.
C15_DueNotPastAtCheck ==
    /\ \A d \in DueCreates \cup ValidCreates, tc \in Reads(now) :
         \A tu \in Reads(tc), tv \in Reads(tc) :
           (tu <= tv /\ tv <= now + 1) =>
             LET r == create_task(data, disk, file, d, uuid4, now, tc, tu, tv)
             IN  r.err = "ok" => DueNotBefore(r.db, uuid4, now)
    /\ \A id \in Keys(data), tu \in Reads(now) :
         /\ \A p \in ValidPatches :
              LET r == update_task(data, disk, file, id, p, now, tu)
              IN  r.err = "ok" => DueNotBefore(r.db, id, now)
         /\ LET r == complete_task(data, disk, file, id, now, tu)
            IN  r.err = "ok" => DueNotBefore(r.db, id, now)

\* a stored task with a due_date can be updated by a body without due_date,
\* and completed, beside a task that has none
C15_Witness ==
    \E i, j \in Keys(data) :
      /\ get_by_id(data, i).due_date # NoIso
      /\ get_by_id(data, j).due_date = NoIso
      /\ update_task(data, disk, file, i, [description |-> "e"], now, now).err = "ok"
      /\ complete_task(data, disk, file, i, now, now).err = "ok"

\* C16: every stored title is a non-empty string without leading or trailing
\* whitespace, whatever create_task and update_task calls were made.
C16_TitlesTrimmed ==
    \A i \in 1..Len(data) :
      /\ data[i].title # NoneTitle
      /\ data[i].title # <<>>
      /\ strip(data[i].title) = data[i].title

\* two tasks are stored and one of them takes a title that the client wrote
\* with blanks around it, stored without them
C16_Witness ==
    /\ Len(data) = 2
    /\ \E id \in Keys(data), raw \in {<<" ", "a", " ">>, <<" ", "b", " ">>} :
         LET r == update_task(data, disk, file, id, TaskUpdate([title |-> raw]).v, now, now)
         IN  /\ TaskUpdate([title |-> raw]).ok
             /\ r.err = "ok"
             /\ get_by_id(r.db, id).title = strip(raw)
             /\ get_by_id(data, id).title # strip(raw)

\* the ids that create_task has stored so far in the run
EverCreated == 1..(nextId - 1)

\* C17: a successful create_task assigns an id that no task created before
\* it in the run had, deleted tasks included; the stored ids are distinct and
\* a deleted id is never stored again.
C17_IdsNeverReused ==
    /\ \A i, j \in 1..Len(data) : i # j => data[i].id # data[j].id
    /\ Keys(data) \cup deleted \subseteq EverCreated
    /\ Keys(data) \cap deleted = {}
    /\ created # NoTask => created.id \in Keys(data)
    /\ \A d \in ValidCreates, tc \in Reads(now) :
         LET r == create_task(data, disk, file, d, uuid4, now, tc, tc, tc)
         IN  r.err = "ok" =>
               /\ r.ret.id \notin EverCreated
               /\ Len(r.db) = Len(data) + 1
               /\ \A i \in 1..Len(data) : r.db[i] = data[i]
               /\ r.db[Len(r.db)].id = r.ret.id

\* a task was created after another one had been deleted
C17_Witness ==
    /\ created # NoTask
    /\ \E id \in deleted : created.id > id

\* C18: complete_task(id) has the outcome and the effect on the store of
\* update_task(id, {status: completed}): for a stored id it returns the task
\* with status completed and the other fields of the body as they were, for
\* an absent id it raises NotFound.
C18_CompleteIsUpdate ==
    \A id \in AnyId, tu \in Reads(now) :
      LET c == complete_task(data, disk, file, id, now, tu)
          u == update_task(data, disk, file, id,
                           TaskUpdate([status |-> "completed"]).v, now, tu)
      IN  /\ c = u
          /\ IF id \in Keys(data)
             THEN /\ c.err = "ok"
                  /\ c.ret.status = "completed"
                  /\ get_by_id(c.db, id).status = "completed"
                  /\ \A k \in PatchFields \ {"status"} :
                       /\ task_dict(c.ret)[k] = get_by_id(data, id)[k]
                       /\ get_by_id(c.db, id)[k] = get_by_id(data, id)[k]
             ELSE Unchanged(c, "NotFound")

\* update_task(id, {status: s}) at clock reading t went through and the task
\* returned and the record stored have status s
MovedTo(r, id, s) ==
    /\ r.err = "ok"
    /\ r.ret.status = s
    /\ get_by_id(r.db, id).status = s

\* C19: update_task moves a stored task from any status to any status: the
\* call with {status: s2} goes through whatever status the task has, and the
\* call with {status: s3} that follows goes through as well.
C19_AnyTransition ==
    \A id \in Keys(data), s2 \in TaskStatus, tu \in Reads(now) :
      LET r == update_task(data, disk, file, id, [status |-> s2], now, tu)
      IN  /\ MovedTo(r, id, s2)
          /\ \A s3 \in TaskStatus, t3 \in Reads(tu) :
               MovedTo(update_task(r.db, disk, r.file, id, [status |-> s3], tu, t3),
                       id, s3)

\* C20: after an insert, update, delete or clear_collection that returns
\* without error, a Database() constructed over the file holds the records of
\* the in-memory snapshot, in their order; with no file it starts empty.  The
\* file is one that only the Database has written.
C20_FileEqualsSnapshot ==
    ~file.corrupt =>
      /\ \A id \in AnyId :
           \A item \in StoreItems(id) :
             /\ LET r == store_insert(data, disk, file, id, item)
                IN  r.err = "ok" => load_data(r.file).db = r.db
             /\ LET r == store_update(data, disk, file, id, item)
                IN  r.err = "ok" => load_data(r.file).db = r.db
      /\ \A id \in AnyId :
           LET r == store_delete(data, disk, file, id)
           IN  r.err = "ok" => load_data(r.file).db = r.db
      /\ LET r == clear_collection(data, disk, file)
         IN  r.err = "ok" => load_data(r.file).db = r.db
      /\ ~file.exists => load_data(file).db = <<>>

\* C21: a Database insert, update, delete or clear_collection whose file
\* rewrite fails raises to its caller, and leaves the in-memory snapshot as it
\* was before the call.
C21_FailedWriteNoEffect ==
    /\ \A id \in AnyId :
         \A item \in StoreItems(id) :
           /\ LET r == store_insert(data, disk, file, id, item)
              IN  /\ ~disk => r.err = "OSError"
                  /\ r.err # "ok" => r.db = data
           /\ LET r == store_update(data, disk, file, id, item)
              IN  /\ (~disk /\ id \in Keys(data)) => r.err = "OSError"
                  /\ r.err # "ok" => r.db = data
    /\ \A id \in AnyId :
         LET r == store_delete(data, disk, file, id)
         IN  /\ (~disk /\ id \in Keys(data)) => r.err = "OSError"
             /\ r.err # "ok" => r.db = data
    /\ LET r == clear_collection(data, disk, file)
       IN  /\ ~disk => r.err = "OSError"
           /\ r.err # "ok" => r.db = data

\* C22: Database.update and Database.delete called with an id that is not a
\* key of the collection return False, leave the in-memory snapshot as it was
\* and do not write the file; a call that returns, returns True exactly when
\* the id was a key.
C22_AbsentIdReturnsFalse ==
    /\ \A id \in AnyId :
         \A item \in StoreItems(id) :
           LET r == store_update(data, disk, file, id, item)
           IN  /\ r.err = "ok" => r.ret = (id \in Keys(data))
               /\ id \notin Keys(data) =>
                    r = [err |-> "ok", db |-> data, file |-> file, ret |-> FALSE]
    /\ \A id \in AnyId :
         LET r == store_delete(data, disk, file, id)
         IN  /\ r.err = "ok" => r.ret = (id \in Keys(data))
             /\ id \notin Keys(data) =>
                  r = [err |-> "ok", db |-> data, file |-> file, ret |-> FALSE]

\* one record is stored and the disk is writable, but the file is not what a
\* rewrite would leave: update and delete of the stored id return True, and of
\* another id False
C22_Witness ==
    /\ disk
    /\ Len(data) = 1
    /\ file # save_data(data, TRUE, file)
    /\ \E id \in Keys(data), other \in Ids \ Keys(data) :
         /\ store_delete(data, disk, file, id).ret
         /\ ~store_delete(data, disk, file, other).ret
         /\ \E item \in StoreItems(id) : store_update(data, disk, file, id, item).ret
         /\ \E item \in StoreItems(other) : ~store_update(data, disk, file, other, item).ret

\* the status codes that answer a failing task request
Taxonomy == {400, 404, 422}

\* C23: every task request that fails is answered 400, 404 or 422: a NotFound
\* of the service is answered 404 by GET, PUT and DELETE /tasks/{id} and by
\* PATCH /tasks/{id}/complete, a Duplicate or Validation is answered 400 by
\* POST /tasks/ and PUT /tasks/{id}, and no exception of the service leaves
\* one of these handlers (which the server would answer with 500).
C23_FailuresMapped ==
    /\ \A id \in AnyId :
         /\ LET s == route_get_task(data, id, now)
            IN  /\ get_task_by_id(data, id, now).err = "NotFound" => s = 404
                /\ s \in Taxonomy \cup {200}
         /\ LET s == route_delete_task(data, disk, file, id, now)
            IN  /\ delete_task(data, disk, file, id, now).err = "NotFound" => s = 404
                /\ s \in Taxonomy \cup {204}
         /\ \A tu \in Reads(now) :
              LET s == route_complete_task(data, disk, file, id, now, tu)
              IN  /\ complete_task(data, disk, file, id, now, tu).err = "NotFound"
                       => s = 404
                  /\ s \in Taxonomy \cup {200}
         /\ \A raw \in AllPatches, tu \in Reads(now) :
              LET s == route_update_task(data, disk, file, id, raw, now, tu)
                  e == update_task(data, disk, file, id, TaskUpdate(raw).v, now, tu).err
              IN  /\ (TaskUpdate(raw).ok /\ e = "NotFound") => s = 404
                  /\ (TaskUpdate(raw).ok /\ e \in {"Duplicate", "Validation"}) => s = 400
                  /\ s \in Taxonomy \cup {200}
    /\ \A raw \in CreateInputs \cup DueCreates, tc \in Reads(now) :
         LET s == route_create_task(data, disk, file, raw, uuid4, now, now, tc, tc, tc)
             e == create_task(data, disk, file, TaskCreate(raw, now).v, uuid4,
                              now, tc, tc, tc).err
         IN  /\ (TaskCreate(raw, now).ok /\ e \in {"Duplicate", "Validation"}) => s = 400
             /\ s \in Taxonomy \cup {201}

\* the ids of the records in the backing file
FileKeys(f) == Keys(load_data(f).db)

\* C24: with two processes over one file, a mutating call rewrites the file
\* from the caller's snapshot alone, so that a record the other process
\* created and answered for, and that the caller has not loaded, is missing
\* from the file after the call; and create_task looks for the title in the
\* caller's snapshot alone, so that it goes through with a title that a task
\* created by the other process has.
C24_LostUpdate ==
    \A i \in Processes :
      /\ \A d \in ValidCreates, tc \in Reads(now) :
           LET r == create_task(instance(i), disk, file, d, uuid4, now, tc, tc, tc)
           IN  /\ r.err = "ok" =>
                    \A id \in peer.acked \ Keys(instance(i)) : id \notin FileKeys(r.file)
               /\ d.due_date = NoDate =>
                    (r.err = "ok" <=>
                       \A k \in 1..Len(instance(i)) :
                         lower(instance(i)[k].title) # lower(d.title))
      /\ \A id \in Keys(instance(i)) :
           LET r == delete_task(instance(i), disk, file, id, now)
           IN  r.err = "ok" =>
                 \A other \in peer.acked \ Keys(instance(i)) : other \notin FileKeys(r.file)

\* a task that process 1 created and answered for is no longer in the file,
\* which process 2 has rewritten, and the two processes hold tasks of their
\* own making with the same title
C24_Witness ==
    /\ \E id \in peer.acked \cap Keys(data) : id \notin FileKeys(file)
    /\ \E k \in 1..Len(data), m \in 1..Len(peer.data) :
         /\ data[k].id # peer.data[m].id
         /\ {data[k].id, peer.data[m].id} \subseteq peer.acked
         /\ data[k].id \notin Keys(peer.data)
         /\ peer.data[m].id \notin Keys(data)
         /\ lower(data[k].title) = lower(peer.data[m].title)

\* C25: Database() never raises: over a backing file that exists and cannot
\* be read or parsed it starts with no record in "tasks", and get_all("tasks")
\* on it returns an empty mapping.
C25_LoadNeverFails ==
    /\ load_data(file).err = "ok"
    /\ (file.exists /\ file.corrupt) =>
         /\ load_data(file).db = <<>>
         /\ Keys(get_all(load_data(file).db)) = {}

\* the file held records when it was damaged, and the Database started over
\* it holds none
C25_Witness ==
    /\ file.exists
    /\ file.corrupt
    /\ file.tasks # <<>>
    /\ data = load_data(file).db
    /\ get_all(data) = <<>>

\* C26: the checks of the service run in a fixed order and the first that
\* fails decides the exception: create_task with a title that is taken and a
\* due_date in the past raises Duplicate; update_task on an absent id raises
\* NotFound whatever the body; update_task on a stored id with a title that
\* another task has and a due_date in the past raises Duplicate.
C26_FirstCheckDecides ==
    /\ \A d \in DueCreates, tc \in Reads(now) :
         (TitleTaken(d.title, Keys(data)) /\ d.due_date < now) =>
           Unchanged(create_task(data, disk, file, d, uuid4, now, tc, tc, tc),
                     "Duplicate")
    /\ \A id \in AnyId \ Keys(data), p \in ValidPatches, tu \in Reads(now) :
         Unchanged(update_task(data, disk, file, id, p, now, tu), "NotFound")
    /\ \A id \in Keys(data), p \in ValidPatches, tu \in Reads(now) :
         (/\ DOMAIN p = {"title", "due_date"}
          /\ TitleTaken(p.title, Keys(data) \ {id})
          /\ p.due_date # NoDate
          /\ p.due_date < now) =>
           Unchanged(update_task(data, disk, file, id, p, now, tu), "Duplicate")

\* the stored record of id has a due_date that the clock reading t has passed
PastDue(db, id, t) ==
    /\ get_by_id(db, id).due_date # NoIso
    /\ fromisoformat(get_by_id(db, id).due_date) < t

\* C27: a stored task stays readable when the clock has passed its due_date:
\* get_task_by_id returns it, get_all_tasks, get_tasks_by_status and
\* get_statistics return and count it, and delete_task, complete_task,
\* update_task and create_task go through as they do for any other task.
C27_StaysReadable ==
    \A id \in Keys(data) :
      PastDue(data, id, now) =>
        /\ get_task_by_id(data, id, now).err = "ok"
        /\ get_task_by_id(data, id, now).ret.id = id
        /\ LET r == get_all_tasks(data, now)
           IN  r.err = "ok" /\ EachOnce(r.tasks, Keys(data))
        /\ LET r == get_tasks_by_status(data, get_by_id(data, id).status, now)
           IN  r.err = "ok" /\ \E k \in 1..Len(r.tasks) : r.tasks[k].id = id
        /\ LET r == get_statistics(data, now, now)
           IN  r.err = "ok" /\ r.ret.total = Len(data)
        /\ LET r == delete_task(data, disk, file, id, now)
           IN  r.err = "ok" /\ r.ret /\ id \notin Keys(r.db)
        /\ LET r == complete_task(data, disk, file, id, now, now)
           IN  r.err = "ok" /\ get_by_id(r.db, id).status = "completed"
        /\ LET r == update_task(data, disk, file, id, [description |-> "e"], now, now)
           IN  r.err = "ok" /\ get_by_id(r.db, id).description = "e"
        /\ \A d \in ValidCreates :
             (d.due_date = NoDate /\ ~TitleTaken(d.title, Keys(data))) =>
               create_task(data, disk, file, d, uuid4, now, now, now, now).err = "ok"

\* the record has a status and a priority of the enums, and Task(**rec)
\* accepts it, the comparison of its due_date with the clock apart
WellFormed(rec) ==
    /\ rec.status \in TaskStatus
    /\ rec.priority \in TaskPriority
    /\ Task(from_record(rec), 0).ok

\* C28: every stored record has a status among pending, in_progress,
\* completed, cancelled and a priority among low, medium, high, urgent, and
\* can be read back as a Task; update_task keeps it so for every body, the
\* bodies that set status or priority to None included.
C28_EnumsStayValid ==
    /\ \A i \in 1..Len(data) : WellFormed(data[i])
    /\ \A id \in Keys(data), p \in ValidPatches, tu \in Reads(now) :
         LET r == update_task(data, disk, file, id, p, now, tu)
         IN  r.err = "ok" => WellFormed(get_by_id(r.db, id))

\* a step of one of the read operations
ReadStep ==
    \/ GetAllTasks
    \/ GetTaskById
    \/ GetTasksByStatus
    \/ GetStatistics
    \/ FindByTitle
    \/ Exists
    \/ Count

=============================================================================
